---- MODULE Spec2Model ----
(***************************************************************************)
(* State-machine model of podverse-api's episode controller                *)
(* (src/src/controllers/episode.ts): the chapter synchronizer              *)
(* retrieveLatestChapters, the dead-episode reaper removeDeadEpisodes and  *)
(* the episode listing entry points.                                       *)
(***************************************************************************)
EXTENDS Integers, Sequences, FiniteSets, TLC

\* ------------------------------------------------------------------ bounds
\* Longest remote chapters document.
MaxRemoteLen == 2
\* Most media references in the store before the first call.
MaxInitRefs == 2
\* The clock runs from 0 to MaxTime, in ticks of six hours.
MaxTime == 3
\* Most retrieveLatestChapters invocations in one behaviour.
MaxCalls == 2
\* Most storage failures injected into per-chapter writes in one behaviour.
MaxFaults == 1

\* Most podcast ids in one listing request.
MaxIds == 11
\* Most dead episodes in the store before the first reaper pass.
MaxDead == 205

\* ------------------------------------------------------- program constants
\* 1 * 12 * 60 * 60 * 1000 ms, in six-hour ticks.
HalfDay == 2
\* date.setDate(date.getDate() - 1): one day, in six-hour ticks.
OneDay == 4
\* x.description.substr(0, 2500).
DescriptionLimit == 2500
\* podcastIds.length > 10.
ManyPodcasts == 10
\* .limit(100) of getDeadEpisodes.
DeadEpisodesLimit == 100
\* deadEpisodes.length === 100 of removeDeadEpisodes.
FullPass == 100

\* ------------------------------------------------------------ value domains
\* A timestamp column is <<>> when NULL and <<t>> when set.
Unset == <<>>
StartTimes == {10, 20}
RemoteTitles == {"A", "B"}
\* Episodes 1 and 2 are stored; 3 is an id no episode has.
CallIds == {1, 2, 3}
Procs == {1, 2}

VARIABLES
    episodes,     \* Episode table: id -> row
    mediaRefs,    \* MediaRef table: sequence of rows, a row's id is its index
    now,          \* new Date(), in ticks
    remote,       \* what request(chaptersUrl) + JSON.parse yields
    pc,           \* per invocation: position in retrieveLatestChapters
    loc,          \* per invocation: its local variables
    hist,         \* per invocation: what the claims compare against
    callsLeft,    \* invocations still to start
    faultsLeft,   \* storage failures still to inject
    lastDone,     \* the invocation that returned last: id, time, store then
    reaper,       \* the caller of removeDeadEpisodes: its passes and the last one's outcome
    recentEpisodes, \* RecentEpisodeByCategory and RecentEpisodeByPodcast
    listing       \* the last listing request and its answer

vars == <<episodes, mediaRefs, now, remote, pc, loc, hist, callsLeft, faultsLeft, lastDone,
          reaper, recentEpisodes, listing>>

\* What retrieveLatestChapters never touches.
otherState == <<reaper, recentEpisodes, listing>>
\* What the reaper and the listings never touch.
syncState == <<now, remote, pc, loc, hist, faultsLeft, lastDone>>

\* ------------------------------------------------------------------ rows
\* Strings the code takes apart are sequences of one-character strings.
Episode(id, pub, podcast, cats, title, description, pubDate, views, url, parsed) ==
    [id |-> id, isPublic |-> pub, podcastId |-> podcast, categories |-> cats, title |-> title,
     description |-> description, pubDate |-> pubDate, pageviews |-> views,
     chaptersUrl |-> url, chaptersUrlLastParsed |-> parsed]

Windows == {"pastHour", "pastDay", "pastWeek", "pastMonth", "pastYear", "pastAllTime"}

EpisodeRow(id, pub, url, parsed) ==
    Episode(id, pub, <<"1">>, {<<"7">>}, <<"a">>, 0, 0, [w \in Windows |-> 0], url, parsed)

MediaRefRow(ep, st, title, pub, official) ==
    [episodeId |-> ep, startTime |-> st, title |-> title,
     isPublic |-> pub, isOfficialChapter |-> official]

RemoteChapter == [startTime : StartTimes, title : RemoteTitles]

RECURSIVE SeqsUpTo(_, _)
SeqsUpTo(S, n) ==
    IF n = 0 THEN {<<>>}
    ELSE LET shorter == SeqsUpTo(S, n - 1)
         IN shorter \cup {Append(s, x) : s \in {t \in shorter : Len(t) = n - 1}, x \in S}

\* A remote source either fails to answer, answers with text that is not
\* JSON, answers with JSON holding no `chapters`, or with a chapters array.
RemoteDocs ==
    {[kind |-> "fetchError", chapters |-> <<>>],
     [kind |-> "parseError", chapters |-> <<>>],
     [kind |-> "noChapters", chapters |-> <<>>]}
    \cup {[kind |-> "chapters", chapters |-> c] : c \in SeqsUpTo(RemoteChapter, MaxRemoteLen)}

\* Rows the store may hold before the first call: user clips and official
\* chapters (public, or suppressed by an earlier sync) of either episode.
InitRefRows ==
    {MediaRefRow(e, s, "Old", TRUE, TRUE) : e \in {1, 2}, s \in StartTimes}
    \cup {MediaRefRow(1, 20, "Old", FALSE, TRUE), MediaRefRow(1, 10, "Old", TRUE, FALSE)}

\* ------------------------------------------------------- storage primitives
\* updateMediaRef(obj): the row with obj's id takes the fields obj gives.
updateMediaRef(refs, id, fields) ==
    [refs EXCEPT ![id] = [f \in DOMAIN refs[id] |->
        IF f \in DOMAIN fields THEN fields[f] ELSE refs[id][f]]]

\* createMediaRef(obj): a new row.
createMediaRef(refs, row) == Append(refs, row)

IdleListing == [entry |-> "none"]

\* ------------------------------------------------- retrieveLatestChapters
IdleLoc ==
    [id |-> 0, chaptersUrl |-> "", chaptersUrlLastParsed |-> Unset,
     newChapters |-> <<>>, existingChapters |-> {}, first |-> [s \in StartTimes |-> 0],
     deadLeft |-> {}, i |-> 1, ret |-> <<>>, count |-> 0]

IdleHist ==
    [pre |-> <<>>, callTime |-> 0, fetched |-> FALSE, doc |-> "none",
     dead |-> {}, suppressed |-> {}, processed |-> {}, failed |-> {},
     immediate |-> FALSE, after |-> <<>>, afterSync |-> FALSE]

\* new Date(x).getTime(): a NULL column reads as the epoch (line 277).
getTime(date) == IF date = Unset THEN 0 ELSE date[1]

\* The freshness test with the comparison of line 279 turned round.
ShouldSyncTurned(chaptersUrl, chaptersUrlLastParsed, t) ==
    LET halfDay == t + HalfDay
        chaptersUrlLastParsedDate == getTime(chaptersUrlLastParsed)
    IN /\ chaptersUrl # ""
       /\ \/ chaptersUrlLastParsed = Unset
          \/ halfDay > chaptersUrlLastParsedDate

\* The freshness test of lines 276-279, t being new Date().getTime().
ShouldSync(chaptersUrl, chaptersUrlLastParsed, t) ==
    LET halfDay == t + HalfDay
        chaptersUrlLastParsedDate == getTime(chaptersUrlLastParsed)
    IN /\ chaptersUrl # ""
       /\ \/ chaptersUrlLastParsed = Unset
          \/ halfDay < chaptersUrlLastParsedDate

\* A call begins (line 259).
Call(p, id) ==
    /\ pc[p] \in {"idle", "done", "thrown"}
    /\ callsLeft > 0
    /\ callsLeft' = callsLeft - 1
    /\ pc' = [pc EXCEPT ![p] = "load"]
    /\ loc' = [loc EXCEPT ![p] = [IdleLoc EXCEPT !.id = id]]
    /\ hist' = [hist EXCEPT ![p] = [IdleHist EXCEPT
            !.pre = mediaRefs,
            !.callTime = now,
            !.immediate = (lastDone.id = id /\ lastDone.time = now),
            !.after = lastDone.refs,
            !.afterSync = lastDone.synced]]
    /\ UNCHANGED <<episodes, mediaRefs, now, remote, faultsLeft, lastDone>>
    /\ UNCHANGED otherState

\* Lines 263-279: read the episode, throw when there is none, decide on a sync.
LoadEpisode(p) ==
    /\ pc[p] = "load"
    /\ IF loc[p].id \notin DOMAIN episodes
       THEN /\ pc' = [pc EXCEPT ![p] = "thrown"]
            /\ UNCHANGED loc
       ELSE LET episode == episodes[loc[p].id]
            IN /\ loc' = [loc EXCEPT ![p].chaptersUrl = episode.chaptersUrl,
                                     ![p].chaptersUrlLastParsed = episode.chaptersUrlLastParsed]
               /\ pc' = [pc EXCEPT ![p] =
                    IF ShouldSync(episode.chaptersUrl, episode.chaptersUrlLastParsed, now)
                    THEN "mark" ELSE "final"]
    /\ UNCHANGED <<episodes, mediaRefs, now, remote, hist, callsLeft, faultsLeft, lastDone>>
    /\ UNCHANGED otherState

\* Line 281: the timestamp is written before the fetch.
MarkParsed(p) ==
    /\ pc[p] = "mark"
    /\ episodes' = [episodes EXCEPT ![loc[p].id].chaptersUrlLastParsed = <<now>>]
    /\ pc' = [pc EXCEPT ![p] = "fetch"]
    /\ UNCHANGED <<mediaRefs, now, remote, loc, hist, callsLeft, faultsLeft, lastDone>>
    /\ UNCHANGED otherState

\* Lines 282-285 with a failed request or parse read as an empty chapters
\* array, the sync going on.
RequestDefaultsToEmpty(p) ==
    /\ pc[p] = "fetch"
    /\ hist' = [hist EXCEPT ![p].fetched = TRUE, ![p].doc = remote.kind]
    /\ IF remote.kind # "noChapters"
       THEN /\ loc' = [loc EXCEPT ![p].newChapters = remote.chapters]
            /\ pc' = [pc EXCEPT ![p] = "existing"]
       ELSE /\ pc' = [pc EXCEPT ![p] = "final"]
            /\ UNCHANGED loc
    /\ UNCHANGED <<episodes, mediaRefs, now, remote, callsLeft, faultsLeft, lastDone>>
    /\ UNCHANGED otherState

\* Lines 282-285 and the catch of line 340: a failed request or JSON.parse
\* ends the sync; so does a document without `chapters`.
Request(p) ==
    /\ pc[p] = "fetch"
    /\ hist' = [hist EXCEPT ![p].fetched = TRUE, ![p].doc = remote.kind]
    /\ IF remote.kind = "chapters"
       THEN /\ loc' = [loc EXCEPT ![p].newChapters = remote.chapters]
            /\ pc' = [pc EXCEPT ![p] = "existing"]
       ELSE /\ pc' = [pc EXCEPT ![p] = "final"]
            /\ UNCHANGED loc
    /\ UNCHANGED <<episodes, mediaRefs, now, remote, callsLeft, faultsLeft, lastDone>>
    /\ UNCHANGED otherState

\* Lines 286-292: every row with isOfficialChapter = TRUE, of any episode.
ExistingChapters(refs) ==
    {[id |-> r, startTime |-> refs[r].startTime] :
        r \in {x \in DOMAIN refs : refs[x].isOfficialChapter}}

\* Lines 296-298 with `some` written for `every`.
DeadChaptersSome(existingChapters, newChapters) ==
    {x \in existingChapters :
        \E j \in DOMAIN newChapters : newChapters[j].startTime # x.startTime}

\* Lines 296-298.
DeadChapters(existingChapters, newChapters) ==
    {x \in existingChapters :
        \A j \in DOMAIN newChapters : newChapters[j].startTime # x.startTime}

\* Lines 286-298. The query has no ORDER BY: which of several rows with one
\* startTime Array.find meets first is the database's choice, fixed here for
\* the rest of the call.
GetExistingChapters(p) ==
    /\ pc[p] = "existing"
    /\ LET existing == ExistingChapters(mediaRefs)
           dead == DeadChapters(existing, loc[p].newChapters)
           matches(s) == {x.id : x \in {y \in existing : y.startTime = s}}
       IN \E first \in [StartTimes -> DOMAIN mediaRefs \cup {0}] :
            /\ \A s \in StartTimes :
                 IF matches(s) = {} THEN first[s] = 0 ELSE first[s] \in matches(s)
            /\ loc' = [loc EXCEPT ![p].existingChapters = existing,
                                  ![p].first = first,
                                  ![p].deadLeft = {x.id : x \in dead}]
            /\ hist' = [hist EXCEPT ![p].dead = {x.id : x \in dead}]
    /\ pc' = [pc EXCEPT ![p] = "dead"]
    /\ UNCHANGED <<episodes, mediaRefs, now, remote, callsLeft, faultsLeft, lastDone>>
    /\ UNCHANGED otherState

\* Lines 300-305: one turn of the loop over deadChapters, the write succeeding.
SuppressDeadChapter(p) ==
    /\ pc[p] = "dead"
    /\ loc[p].deadLeft # {}
    /\ \E d \in loc[p].deadLeft :
        /\ mediaRefs' = updateMediaRef(mediaRefs, d,
                [isOfficialChapter |-> TRUE,
                 startTime |-> (CHOOSE x \in loc[p].existingChapters : x.id = d).startTime,
                 isPublic |-> FALSE])
        /\ loc' = [loc EXCEPT ![p].deadLeft = @ \ {d}]
        /\ hist' = [hist EXCEPT ![p].suppressed = @ \cup {d}]
    /\ UNCHANGED <<episodes, now, remote, pc, callsLeft, faultsLeft, lastDone>>
    /\ UNCHANGED otherState

\* Lines 300-305 with updateMediaRef throwing: no try encloses the loop but
\* the one of line 280, so the catch of line 340 ends the sync.
SuppressDeadChapterFails(p) ==
    /\ pc[p] = "dead"
    /\ loc[p].deadLeft # {}
    /\ faultsLeft > 0
    /\ faultsLeft' = faultsLeft - 1
    /\ \E d \in loc[p].deadLeft :
        hist' = [hist EXCEPT ![p].failed = @ \cup {[kind |-> "dead", at |-> d]}]
    /\ pc' = [pc EXCEPT ![p] = "final"]
    /\ UNCHANGED <<episodes, mediaRefs, now, remote, loc, callsLeft, lastDone>>
    /\ UNCHANGED otherState

\* Line 300: the loop over deadChapters is over.
DeadChaptersDone(p) ==
    /\ pc[p] = "dead"
    /\ loc[p].deadLeft = {}
    /\ pc' = [pc EXCEPT ![p] = "new"]
    /\ UNCHANGED <<episodes, mediaRefs, now, remote, loc, hist, callsLeft, faultsLeft, lastDone>>
    /\ UNCHANGED otherState

\* Lines 307-334: one turn of the loop over newChapters, the write succeeding.
ReconcileNewChapter(p) ==
    /\ pc[p] = "new"
    /\ loc[p].i <= Len(loc[p].newChapters)
    /\ LET newChapter == loc[p].newChapters[loc[p].i]
           existingChapter == loc[p].first[newChapter.startTime]
       IN mediaRefs' =
            IF existingChapter # 0
            THEN updateMediaRef(mediaRefs, existingChapter,
                    [isOfficialChapter |-> TRUE, isPublic |-> TRUE,
                     startTime |-> newChapter.startTime, title |-> newChapter.title,
                     episodeId |-> loc[p].id])
            ELSE createMediaRef(mediaRefs,
                    MediaRefRow(loc[p].id, newChapter.startTime, newChapter.title, TRUE, TRUE))
    /\ loc' = [loc EXCEPT ![p].i = @ + 1]
    /\ hist' = [hist EXCEPT ![p].processed = @ \cup {loc[p].i}]
    /\ UNCHANGED <<episodes, now, remote, pc, callsLeft, faultsLeft, lastDone>>
    /\ UNCHANGED otherState

\* Lines 308-337 without the try of line 308: the throw reaches the catch of
\* line 340 and ends the loop.
ReconcileNewChapterAborts(p) ==
    /\ pc[p] = "new"
    /\ loc[p].i <= Len(loc[p].newChapters)
    /\ faultsLeft > 0
    /\ faultsLeft' = faultsLeft - 1
    /\ pc' = [pc EXCEPT ![p] = "final"]
    /\ hist' = [hist EXCEPT ![p].failed = @ \cup {[kind |-> "new", at |-> loc[p].i]}]
    /\ UNCHANGED <<episodes, mediaRefs, now, remote, loc, callsLeft, lastDone>>
    /\ UNCHANGED otherState

\* Lines 308-337 with updateMediaRef or createMediaRef throwing: the catch of
\* line 335 logs it and the loop goes on.
ReconcileNewChapterFails(p) ==
    /\ pc[p] = "new"
    /\ loc[p].i <= Len(loc[p].newChapters)
    /\ faultsLeft > 0
    /\ faultsLeft' = faultsLeft - 1
    /\ loc' = [loc EXCEPT ![p].i = @ + 1]
    /\ hist' = [hist EXCEPT ![p].failed = @ \cup {[kind |-> "new", at |-> loc[p].i]}]
    /\ UNCHANGED <<episodes, mediaRefs, now, remote, pc, callsLeft, lastDone>>
    /\ UNCHANGED otherState

\* Line 307: the loop over newChapters is over.
NewChaptersDone(p) ==
    /\ pc[p] = "new"
    /\ loc[p].i > Len(loc[p].newChapters)
    /\ pc' = [pc EXCEPT ![p] = "final"]
    /\ UNCHANGED <<episodes, mediaRefs, now, remote, loc, hist, callsLeft, faultsLeft, lastDone>>
    /\ UNCHANGED otherState

\* Rows of the final query: official chapters of the episode.
OfficialChaptersOf(refs, id) ==
    {r \in DOMAIN refs : refs[r].isOfficialChapter /\ refs[r].episodeId = id}

\* ORDER BY mediaRef.startTime ASC; rows of equal startTime in any one order.
OrderByStartTime(refs, S) ==
    CHOOSE s \in [1..Cardinality(S) -> S] :
        /\ \A r \in S : \E k \in DOMAIN s : s[k] = r
        /\ \A k \in 1..(Cardinality(S) - 1) : refs[s[k]].startTime <= refs[s[k + 1]].startTime

\* Lines 345-361.
OfficialChaptersForEpisode(p) ==
    /\ pc[p] = "final"
    /\ LET rows == OfficialChaptersOf(mediaRefs, loc[p].id)
       IN loc' = [loc EXCEPT ![p].ret = OrderByStartTime(mediaRefs, rows),
                             ![p].count = Cardinality(rows)]
    /\ pc' = [pc EXCEPT ![p] = "done"]
    /\ lastDone' = [id |-> loc[p].id, time |-> now, refs |-> mediaRefs,
                     synced |-> (hist[p].doc = "chapters")]
    /\ UNCHANGED <<episodes, mediaRefs, now, remote, hist, callsLeft, faultsLeft>>
    /\ UNCHANGED otherState

\* Six hours pass between requests.
Tick ==
    /\ \A p \in Procs : pc[p] \in {"idle", "done", "thrown"}
    /\ now < MaxTime
    /\ now' = now + 1
    /\ UNCHANGED <<episodes, mediaRefs, remote, pc, loc, hist, callsLeft, faultsLeft, lastDone>>
    /\ UNCHANGED otherState

\* ------------------------------------------------------ removeDeadEpisodes
IdleReaper ==
    [passes |-> 0, shouldContinue |-> TRUE, before |-> <<>>, removed |-> {}, deadAtStart |-> 0]

Min(a, b) == IF a <= b THEN a ELSE b

\* The query of lines 228-235 without its mediaRef.id IS NULL.
DeadEpisodesUnjoined(eps, refs) == {e \in DOMAIN eps : eps[e].isPublic = FALSE}

\* The WHERE and LEFT JOIN of lines 228-235: non-public episodes to which no
\* media reference is attached.
DeadEpisodes(eps, refs) ==
    {e \in DOMAIN eps :
        /\ eps[e].isPublic = FALSE
        /\ \A r \in DOMAIN refs : refs[r].episodeId # e}

\* Lines 225-242. LIMIT without ORDER BY leaves the rows to the database: the
\* answers modelled are the rows of lowest and the rows of highest id.
getDeadEpisodes(eps, refs) ==
    LET dead == DeadEpisodes(eps, refs)
        lowest == {e \in dead : Cardinality({d \in dead : d <= e}) <= DeadEpisodesLimit}
        highest == {e \in dead : Cardinality({d \in dead : d >= e}) <= DeadEpisodesLimit}
    IN {lowest, highest}

\* Lines 252-257.
removeEpisodes(eps, removed) == [e \in DOMAIN eps \ removed |-> eps[e]]

\* Lines 244-250, called again by its caller while it answers true.
removeDeadEpisodes ==
    /\ reaper.shouldContinue
    /\ \E deadEpisodes \in getDeadEpisodes(episodes, mediaRefs) :
        /\ episodes' = removeEpisodes(episodes, deadEpisodes)
        /\ reaper' = [passes |-> reaper.passes + 1,
                      shouldContinue |-> (Cardinality(deadEpisodes) = FullPass),
                      before |-> episodes,
                      removed |-> deadEpisodes,
                      deadAtStart |-> reaper.deadAtStart]
    /\ UNCHANGED <<mediaRefs, callsLeft, recentEpisodes, listing>>
    /\ UNCHANGED syncState

\* ----------------------------------------------------------------- listings
Sorts ==
    {"top-past-hour", "top-past-day", "top-past-week", "top-past-month",
     "top-past-year", "top-all-time", "most-recent", "random"}

Max(a, b) == IF a >= b THEN a ELSE b

\* String.prototype.split(',').
RECURSIVE split(_)
split(str) ==
    IF \A i \in DOMAIN str : str[i] # ","
    THEN <<str>>
    ELSE LET i == CHOOSE k \in DOMAIN str : str[k] = "," /\ \A m \in 1..(k - 1) : str[m] # ","
         IN <<SubSeq(str, 1, i - 1)>> \o split(SubSeq(str, i + 1, Len(str)))

\* `x && x.split(',') || []` of lines 173 and 205: no ids for an absent or
\* empty parameter.
splitIds(param) == IF param = <<>> THEN <<>> ELSE split(param)

toLowerCase(str) ==
    [i \in DOMAIN str |-> CASE str[i] = "A" -> "a" [] str[i] = "B" -> "b" [] OTHER -> str[i]]

RECURSIVE trim(_)
trim(str) ==
    IF str = <<>> THEN str
    ELSE IF Head(str) = " " THEN trim(Tail(str))
    ELSE IF str[Len(str)] = " " THEN trim(SubSeq(str, 1, Len(str) - 1))
    ELSE str

\* text LIKE '%pattern%'.
like(text, pattern) ==
    \E i \in 1..(Len(text) + 1) :
        /\ i + Len(pattern) - 1 <= Len(text)
        /\ SubSeq(text, i, i + Len(pattern) - 1) = pattern

\* Lines 66-104: the rows the base query selects (every episode has the
\* podcast the inner join asks for).
generateEpisodeSelects(eps, searchAllFieldsText) ==
    {e \in DOMAIN eps :
        IF searchAllFieldsText # <<>>
        THEN like(toLowerCase(eps[e].title), trim(toLowerCase(searchAllFieldsText)))
        ELSE TRUE}

\* Lines 41-64, t being new Date().
limitEpisodesQuerySize(eps, qb, shouldLimit, sort, t) ==
    IF ~shouldLimit THEN qb
    ELSE CASE sort = "top-past-hour" -> {e \in qb : eps[e].pageviews["pastHour"] > 0}
           [] sort = "top-past-day" -> {e \in qb : eps[e].pageviews["pastDay"] > 0}
           [] sort = "top-past-week" -> {e \in qb : eps[e].pageviews["pastWeek"] > 0}
           [] sort = "top-past-month" -> {e \in qb : eps[e].pageviews["pastMonth"] > 0}
           [] sort = "top-past-year" -> {e \in qb : eps[e].pageviews["pastYear"] > 0}
           [] sort = "top-all-time" -> {e \in qb : eps[e].pageviews["pastAllTime"] > 0}
           [] sort = "most-recent" -> {e \in qb : eps[e].pubDate > t - OneDay}
           [] OTHER -> qb

\* andWhere('episode."isPublic" IS true').
isPublicOnly(eps, qb) == {e \in qb : eps[e].isPublic}

\* Lines 107-112: x.description.substr(0, 2500), '' for none.
cleanEpisodes(eps, rows) ==
    {[id |-> e, isPublic |-> eps[e].isPublic,
      description |-> Min(eps[e].description, DescriptionLimit)] : e \in rows}

\* Lines 143-158: every [page, count] the query may answer. The order column
\* comes from getQueryOrderColumn, so any rows of the right number may make
\* the page.
handleGetEpisodesWithOrdering(eps, qb, skip, take) ==
    {[episodes |-> cleanEpisodes(eps, page), count |-> Cardinality(qb)] :
        page \in {P \in SUBSET qb : Cardinality(P) = Min(take, Max(0, Cardinality(qb) - skip))}}

\* ORDER BY pubDate DESC OFFSET skip LIMIT take over projection rows, rows
\* of equal pubDate in any order.
recentPages(rows, skip, take) ==
    {P \in SUBSET rows :
        /\ Cardinality(P) = Min(take, Max(0, Cardinality(rows) - skip))
        /\ \E skipped \in SUBSET (rows \ P) :
            /\ Cardinality(skipped) = Min(skip, Cardinality(rows))
            /\ \A a \in skipped : \A b \in rows \ skipped : a.pubDate >= b.pubDate
            /\ \A a \in P : \A b \in rows \ (skipped \cup P) : a.pubDate >= b.pubDate}

\* Lines 114-141: every [episodes, totalCount] the recency-index path may
\* answer. `ids` is a sequence; an empty IN list matches nothing.
handleMostRecentEpisodesQuery(eps, qb, type, ids, skip, take) ==
    LET table == IF type = "categoriesIds" THEN recentEpisodes.byCategory
                 ELSE recentEpisodes.byPodcast
        rows == {x \in table : \E k \in DOMAIN ids : x.key = ids[k]}
        totalCount == Cardinality(rows)
    IN IF totalCount = 0 THEN {[episodes |-> {}, count |-> 0]}
       ELSE {LET recentEpisodeIds == {x.episodeId : x \in page}
             IN IF recentEpisodeIds = {} THEN [episodes |-> {}, count |-> totalCount]
                ELSE [episodes |-> cleanEpisodes(eps, {e \in qb : eps[e].id \in recentEpisodeIds}),
                      count |-> totalCount] :
             page \in recentPages(rows, skip, take)}

\* The request is answered.
Answer(q, path, shouldLimit, result) ==
    /\ callsLeft' = callsLeft - 1
    /\ listing' = [entry |-> q.entry, query |-> q, path |-> path, shouldLimit |-> shouldLimit,
                   episodes |-> result.episodes, count |-> result.count]
    /\ UNCHANGED <<episodes, mediaRefs, reaper, recentEpisodes>>
    /\ UNCHANGED syncState

\* Lines 160-169.
getEpisodes(q) ==
    /\ callsLeft > 0
    /\ q.entry = "all"
    /\ LET qb == isPublicOnly(episodes,
                    limitEpisodesQuerySize(episodes,
                        generateEpisodeSelects(episodes, q.searchAllFieldsText), TRUE, q.sort, now))
       IN \E result \in handleGetEpisodesWithOrdering(episodes, qb, q.skip, q.take) :
            Answer(q, "direct", TRUE, result)

\* Lines 180-185: the inner join on the podcast's categories.
inCategories(eps, qb, categoriesIds) ==
    {e \in qb : \E k \in DOMAIN categoriesIds : categoriesIds[k] \in eps[e].categories}

\* Lines 171-193.
getEpisodesByCategoryIds(q) ==
    /\ callsLeft > 0
    /\ q.entry = "categories"
    /\ LET categoriesIds == splitIds(q.ids)
           qb == generateEpisodeSelects(episodes, q.searchAllFieldsText)
       IN IF q.sort = "most-recent"
          THEN \E result \in handleMostRecentEpisodesQuery(episodes, qb, "categoriesIds",
                                    categoriesIds, q.skip, q.take) :
                    Answer(q, "recent", FALSE, result)
          ELSE \E result \in handleGetEpisodesWithOrdering(episodes,
                        isPublicOnly(episodes,
                            limitEpisodesQuerySize(episodes,
                                inCategories(episodes, qb, categoriesIds), TRUE, q.sort, now)),
                        q.skip, q.take) :
                    Answer(q, "direct", TRUE, result)

\* andWhere('episode.podcastId IN(:...podcastIds)').
inPodcasts(eps, qb, podcastIds) ==
    {e \in qb : \E k \in DOMAIN podcastIds : podcastIds[k] = eps[e].podcastId}

\* Lines 195-201.
getEpisodesByPodcastId(eps, qb, podcastIds, skip, take) ==
    handleGetEpisodesWithOrdering(eps, isPublicOnly(eps, inPodcasts(eps, qb, podcastIds)), skip, take)

\* The branches of lines 209-217 with >= written for > in line 217.
podcastIdsStrategyFromTen(podcastIds, sort) ==
    IF Len(podcastIds) = 1 THEN [path |-> "direct", shouldLimit |-> FALSE]
    ELSE IF sort = "most-recent" THEN [path |-> "recent", shouldLimit |-> FALSE]
    ELSE [path |-> "direct", shouldLimit |-> Len(podcastIds) >= ManyPodcasts]

\* The branches of lines 209-217: which path serves the request, and the
\* shouldLimit it hands to limitEpisodesQuerySize (none on the other paths).
podcastIdsStrategy(podcastIds, sort) ==
    IF Len(podcastIds) = 1 THEN [path |-> "direct", shouldLimit |-> FALSE]
    ELSE IF sort = "most-recent" THEN [path |-> "recent", shouldLimit |-> FALSE]
    ELSE [path |-> "direct", shouldLimit |-> Len(podcastIds) > ManyPodcasts]

\* Lines 203-223.
getEpisodesByPodcastIds(q) ==
    /\ callsLeft > 0
    /\ q.entry = "podcasts"
    /\ LET podcastIds == splitIds(q.ids)
           qb == generateEpisodeSelects(episodes, q.searchAllFieldsText)
           strategy == podcastIdsStrategy(podcastIds, q.sort)
           results ==
                IF Len(podcastIds) = 1
                THEN getEpisodesByPodcastId(episodes, qb, podcastIds, q.skip, q.take)
                ELSE IF strategy.path = "recent"
                THEN handleMostRecentEpisodesQuery(episodes, qb, "podcastIds", podcastIds,
                                                   q.skip, q.take)
                ELSE handleGetEpisodesWithOrdering(episodes,
                        isPublicOnly(episodes,
                            limitEpisodesQuerySize(episodes, inPodcasts(episodes, qb, podcastIds),
                                                   strategy.shouldLimit, q.sort, now)),
                        q.skip, q.take)
       IN \E result \in results : Answer(q, strategy.path, strategy.shouldLimit, result)

\* The calls and steps of an invocation whose storage writes all succeed.
retrieveLatestChapters(p, ids) ==
    \/ \E id \in ids : Call(p, id)
    \/ LoadEpisode(p)
    \/ MarkParsed(p)
    \/ Request(p)
    \/ GetExistingChapters(p)
    \/ SuppressDeadChapter(p)
    \/ DeadChaptersDone(p)
    \/ ReconcileNewChapter(p)
    \/ NewChaptersDone(p)
    \/ OfficialChaptersForEpisode(p)

\* The steps at which updateMediaRef or createMediaRef throws.
storageFailure(p) ==
    \/ SuppressDeadChapterFails(p)
    \/ ReconcileNewChapterFails(p)

\* ----------------------------------------------------------- specifications
Episodes(lastParsed) ==
    [e \in {1, 2} |-> IF e = 1 THEN EpisodeRow(e, TRUE, "url", lastParsed)
                                ELSE EpisodeRow(e, TRUE, "", Unset)]

InitCalls(nCalls, nFaults) ==
    /\ now = 0
    /\ pc = [p \in Procs |-> "idle"]
    /\ loc = [p \in Procs |-> IdleLoc]
    /\ hist = [p \in Procs |-> IdleHist]
    /\ callsLeft = nCalls
    /\ faultsLeft = nFaults
    /\ lastDone = [id |-> 0, time |-> 0, refs |-> <<>>, synced |-> FALSE]
    /\ reaper = IdleReaper
    /\ recentEpisodes = [byCategory |-> {}, byPodcast |-> {}]
    /\ listing = IdleListing

\* One request, whose per-chapter writes may fail.
Init ==
    /\ episodes \in {Episodes(lp) : lp \in {Unset, <<0>>}}
    /\ mediaRefs \in SeqsUpTo(InitRefRows, MaxInitRefs)
    /\ remote \in RemoteDocs
    /\ InitCalls(1, MaxFaults)

Next ==
    \/ retrieveLatestChapters(1, CallIds)
    \/ storageFailure(1)

Spec == Init /\ [][Next]_vars

\* Documents and stores of the repeated and the concurrent requests.
FewDocs ==
    {[kind |-> "fetchError", chapters |-> <<>>]}
    \cup {[kind |-> "chapters", chapters |-> c] : c \in
            {<<>>,
             <<[startTime |-> 10, title |-> "A"]>>,
             <<[startTime |-> 10, title |-> "A"], [startTime |-> 10, title |-> "B"]>>,
             <<[startTime |-> 10, title |-> "A"], [startTime |-> 20, title |-> "B"]>>}}

FewStores == {<<>>} \cup {<<r>> : r \in InitRefRows}

\* Requests served one after the other, hours apart or not.
InitRepeat ==
    /\ episodes \in {Episodes(lp) : lp \in {Unset, <<0>>}}
    /\ mediaRefs \in FewStores
    /\ remote \in FewDocs
    /\ InitCalls(MaxCalls, 0)

NextRepeat ==
    \/ retrieveLatestChapters(1, {1, 2})
    \/ Tick

SpecRepeat == InitRepeat /\ [][NextRepeat]_vars

\* Two requests for episode 1 in flight at once.
InitConc ==
    /\ episodes = Episodes(Unset)
    /\ mediaRefs \in FewStores
    /\ remote \in FewDocs
    /\ InitCalls(Cardinality(Procs), 0)

NextConc == \E p \in Procs : retrieveLatestChapters(p, {1})

SpecConc == InitConc /\ [][NextConc]_vars

\* The reaper's caller, over stores of dead, public and clipped episodes.
\* Episodes 1..n are dead; n+1 is public, n+2 and n+3 (one of them public)
\* each have a clip attached.
ReaperEpisodes(n) ==
    [e \in 1..(n + 3) |-> EpisodeRow(e, e \in {n + 1, n + 3}, "", Unset)]

InitReaper ==
    /\ \E n \in 0..MaxDead :
        /\ episodes = ReaperEpisodes(n)
        /\ mediaRefs = <<MediaRefRow(n + 2, 10, "Old", TRUE, FALSE),
                         MediaRefRow(n + 3, 10, "Old", TRUE, FALSE)>>
        /\ reaper = [IdleReaper EXCEPT !.deadAtStart = n]
    /\ remote = [kind |-> "fetchError", chapters |-> <<>>]
    /\ now = 0
    /\ pc = [p \in Procs |-> "idle"]
    /\ loc = [p \in Procs |-> IdleLoc]
    /\ hist = [p \in Procs |-> IdleHist]
    /\ callsLeft = 0
    /\ faultsLeft = 0
    /\ lastDone = [id |-> 0, time |-> 0, refs |-> <<>>, synced |-> FALSE]
    /\ recentEpisodes = [byCategory |-> {}, byPodcast |-> {}]
    /\ listing = IdleListing

NextReaper == removeDeadEpisodes

SpecReaper == InitReaper /\ [][NextReaper]_vars

\* One listing request over a store of three episodes, public or not, and
\* recency projections holding any of them.
ListingEpisodes(public) ==
    [e \in {1, 2, 3} |->
        CASE e = 1 -> Episode(1, 1 \in public, <<"1">>, {<<"7">>}, <<"A", "b">>, 3000, 8,
                              [w \in Windows |-> 1], "", Unset)
          [] e = 2 -> Episode(2, 2 \in public, <<"2">>, {<<"8">>}, <<"b">>, 0, 0,
                              [w \in Windows |-> 0], "", Unset)
          [] e = 3 -> Episode(3, 3 \in public, <<"1">>, {<<"7">>, <<"8">>}, <<"a">>, 10, 7,
                              [w \in Windows |-> IF w = "pastAllTime" THEN 1 ELSE 0], "", Unset)]

Projections(eps, held) ==
    [byCategory |-> {[episodeId |-> e, key |-> c, pubDate |-> eps[e].pubDate] :
                        e \in held, c \in {<<"7">>, <<"8">>}} \ 
                    {x \in [episodeId : held, key : {<<"7">>, <<"8">>}, pubDate : 0..8] :
                        x.key \notin eps[x.episodeId].categories},
     byPodcast |-> {[episodeId |-> e, key |-> eps[e].podcastId, pubDate |-> eps[e].pubDate] :
                        e \in held}]

\* The ids parameter: n ids joined by commas, with or without a trailing comma.
IdsParams(n) ==
    LET ids(k) == [i \in 1..(2 * k - 1) |->
                        IF i % 2 = 0 THEN "," ELSE IF i % 4 = 1 THEN "1" ELSE "2"]
    IN {<<>>} \cup {ids(k) : k \in 1..n} \cup {Append(ids(k), ",") : k \in 1..(n - 1)}

Queries(entry, params) ==
    [entry : {entry}, ids : params, searchAllFieldsText : {<<>>, <<" ", "B">>},
     sort : Sorts, skip : {0, 1}, take : {1, 2}]

InitListing ==
    /\ \E public \in SUBSET {1, 2, 3}, held \in {{}, {2, 3}, {1, 2, 3}} :
        /\ episodes = ListingEpisodes(public)
        /\ recentEpisodes = Projections(ListingEpisodes(public), held)
    /\ mediaRefs = <<>>
    /\ remote = [kind |-> "fetchError", chapters |-> <<>>]
    /\ now = 8
    /\ pc = [p \in Procs |-> "idle"]
    /\ loc = [p \in Procs |-> IdleLoc]
    /\ hist = [p \in Procs |-> IdleHist]
    /\ callsLeft = 1
    /\ faultsLeft = 0
    /\ lastDone = [id |-> 0, time |-> 0, refs |-> <<>>, synced |-> FALSE]
    /\ reaper = IdleReaper
    /\ listing = IdleListing

NextListing ==
    \/ \E q \in Queries("all", {<<>>}) : getEpisodes(q)
    \/ \E q \in Queries("categories", {<<>>, <<"7">>, <<"7", ",", "8">>}) : getEpisodesByCategoryIds(q)
    \/ \E q \in Queries("podcasts", IdsParams(MaxIds)) : getEpisodesByPodcastIds(q)

SpecListing == InitListing /\ [][NextListing]_vars

\* ------------------------------------------------------------------ claims
Done(p) == pc[p] = "done"

\* The invocation fetched and parsed a chapters array and no write failed.
CleanSync(p) == Done(p) /\ hist[p].doc = "chapters" /\ hist[p].failed = {}

Listed(newChapters, s) == {j \in DOMAIN newChapters : newChapters[j].startTime = s}

\* C1 as stated: after a sync with a fetched document and no storage error,
\* every official chapter of the episode whose startTime no remote chapter has
\* is non-public, every remote chapter has an official public chapter of the
\* episode with its startTime and its title, and no earlier row is gone.
C1_AsStated ==
    \A p \in Procs : CleanSync(p) =>
        LET id == loc[p].id
            newChapters == loc[p].newChapters
            official == OfficialChaptersOf(mediaRefs, id)
        IN /\ \A r \in official :
                Listed(newChapters, mediaRefs[r].startTime) = {} => ~mediaRefs[r].isPublic
           /\ \A j \in DOMAIN newChapters : \E r \in official :
                /\ mediaRefs[r].startTime = newChapters[j].startTime
                /\ mediaRefs[r].title = newChapters[j].title
                /\ mediaRefs[r].isPublic
           /\ Len(mediaRefs) >= Len(hist[p].pre)

\* C1 amended: as C1, but the official public chapter at a remote chapter's
\* startTime carries the title of some remote chapter with that startTime,
\* which is the remote chapter's own title when the document lists the
\* startTime once.
C1_Sync ==
    \A p \in Procs : CleanSync(p) =>
        LET id == loc[p].id
            newChapters == loc[p].newChapters
            official == OfficialChaptersOf(mediaRefs, id)
        IN /\ \A r \in official :
                Listed(newChapters, mediaRefs[r].startTime) = {} => ~mediaRefs[r].isPublic
           /\ \A j \in DOMAIN newChapters : \E r \in official :
                /\ mediaRefs[r].startTime = newChapters[j].startTime
                /\ \E k \in Listed(newChapters, newChapters[j].startTime) :
                        mediaRefs[r].title = newChapters[k].title
                /\ mediaRefs[r].isPublic
           /\ Len(mediaRefs) >= Len(hist[p].pre)
           /\ \A r \in DOMAIN hist[p].pre : r \in DOMAIN mediaRefs

\* The case of the spec's example: one chapter updated, one suppressed.
C1_Witness ==
    \E p \in Procs :
        /\ CleanSync(p)
        /\ \E r \in DOMAIN hist[p].pre :
            /\ hist[p].pre[r].title = "Old" /\ mediaRefs[r].title = "A"
            /\ mediaRefs[r].isPublic /\ mediaRefs[r].episodeId = loc[p].id
        /\ \E r \in DOMAIN hist[p].pre :
            /\ hist[p].pre[r].isPublic /\ ~mediaRefs[r].isPublic

\* C2: a second run for the same episode right after a first leaves the
\* store as the first left it, and so creates no media reference.
C2_Idempotent ==
    \A p \in Procs : (Done(p) /\ hist[p].immediate) =>
        /\ mediaRefs = hist[p].after
        /\ Len(mediaRefs) = Len(hist[p].pre)

\* The first run reconciled and created a chapter; the second has returned.
C2_Witness ==
    \E p \in Procs :
        /\ Done(p) /\ hist[p].immediate /\ hist[p].afterSync
        /\ loc[p].count > 0

\* C3 as stated: a call fetches exactly when chaptersUrl is non-empty and
\* chaptersUrlLastParsed is unset or at least 12 hours old.
C3_AsStated ==
    \A p \in Procs : Done(p) =>
        (hist[p].fetched <=>
            /\ loc[p].chaptersUrl # ""
            /\ \/ loc[p].chaptersUrlLastParsed = Unset
               \/ hist[p].callTime - getTime(loc[p].chaptersUrlLastParsed) >= HalfDay)

\* C4 as stated: after two concurrent invocations no two official chapters
\* of the episode share a startTime the remote document lists once.
C4_AsStated ==
    (\A p \in Procs : Done(p)) =>
        \A r1, r2 \in OfficialChaptersOf(mediaRefs, 1) :
            (/\ r1 # r2
             /\ mediaRefs[r1].startTime = mediaRefs[r2].startTime
             /\ remote.kind = "chapters")
            => Cardinality(Listed(remote.chapters, mediaRefs[r1].startTime)) # 1

\* C5: when the fetch or the parse fails the call goes on to its final query
\* and returns; no media reference is created, updated or suppressed, and the
\* answer is the stored official chapters of the episode with their count.
C5_FetchFailure ==
    \A p \in Procs : hist[p].doc \in {"fetchError", "parseError"} =>
        /\ pc[p] \in {"final", "done"}
        /\ mediaRefs = hist[p].pre
        /\ Done(p) =>
            /\ {loc[p].ret[k] : k \in DOMAIN loc[p].ret} = OfficialChaptersOf(hist[p].pre, loc[p].id)
            /\ loc[p].count = Cardinality(OfficialChaptersOf(hist[p].pre, loc[p].id))
            /\ Len(loc[p].ret) = loc[p].count

C5_Witness ==
    \E p \in Procs :
        /\ Done(p) /\ hist[p].doc = "parseError"
        /\ loc[p].count > 0
        /\ \E r \in DOMAIN mediaRefs : mediaRefs[r].isOfficialChapter /\ mediaRefs[r].episodeId # loc[p].id

Failed(p, kind) == {f.at : f \in {g \in hist[p].failed : g.kind = kind}}

\* A remote chapter was reconciled: an official public chapter of the episode
\* stands at its startTime.
Reconciled(p, j) ==
    /\ j \in hist[p].processed
    /\ \E r \in OfficialChaptersOf(mediaRefs, loc[p].id) :
        /\ mediaRefs[r].startTime = loc[p].newChapters[j].startTime
        /\ mediaRefs[r].isPublic

\* C6 as stated: whichever per-chapter write fails (suppress, update or
\* create), every other chapter of the sync is processed and the call returns.
C6_AsStated ==
    \A p \in Procs : (Done(p) /\ hist[p].failed # {}) =>
        /\ \A d \in hist[p].dead \ Failed(p, "dead") : ~mediaRefs[d].isPublic
        /\ \A j \in DOMAIN loc[p].newChapters \ Failed(p, "new") : Reconciled(p, j)

\* C6 amended: a failure while updating or creating one remote chapter is
\* caught on its own: every unmatched local chapter is suppressed and every
\* other remote chapter is reconciled. A failure while suppressing a local
\* chapter ends the sync: no later suppression and no remote chapter is
\* processed. Either way the call goes on to return.
C6_Isolation ==
    \A p \in Procs : hist[p].failed # {} =>
        /\ pc[p] \in {"new", "final", "done"}
        /\ Done(p) =>
            IF Failed(p, "dead") = {}
            THEN /\ \A d \in hist[p].dead : ~mediaRefs[d].isPublic
                 /\ \A j \in DOMAIN loc[p].newChapters \ Failed(p, "new") : Reconciled(p, j)
            ELSE /\ hist[p].processed = {}
                 /\ loc[p].deadLeft # {}
                 /\ Len(mediaRefs) = Len(hist[p].pre)
                 /\ \A r \in DOMAIN mediaRefs \ hist[p].suppressed : mediaRefs[r] = hist[p].pre[r]

\* One remote chapter's write failed, another's succeeded after it.
C6_Witness ==
    \E p \in Procs :
        /\ Done(p)
        /\ Failed(p, "new") = {1}
        /\ 2 \in hist[p].processed
        /\ hist[p].suppressed # {}

\* C9 as stated: a sync for one episode leaves every media reference of
\* another episode with its isPublic, title and episode.
C9_AsStated ==
    \A p \in Procs : CleanSync(p) =>
        \A r \in DOMAIN hist[p].pre :
            hist[p].pre[r].episodeId # loc[p].id =>
                /\ mediaRefs[r].isPublic = hist[p].pre[r].isPublic
                /\ mediaRefs[r].title = hist[p].pre[r].title
                /\ mediaRefs[r].episodeId = hist[p].pre[r].episodeId

\* Dead, in the claim's words: non-public, no media reference attached.
IsDead(eps, e) == ~eps[e].isPublic /\ ~\E r \in DOMAIN mediaRefs : mediaRefs[r].episodeId = e

\* C7: an error-free pass started with N dead episodes removes min(N, 100)
\* of them and nothing else, answers true exactly when it removed 100, and a
\* caller repeating passes while the answer is true makes at most
\* N0 / 100 + 1 passes, N0 being the dead episodes it started with.
C7_Reaper ==
    reaper.passes > 0 =>
        LET before == reaper.before
            dead == {e \in DOMAIN before : IsDead(before, e)}
        IN /\ Cardinality(reaper.removed) = Min(Cardinality(dead), 100)
           /\ reaper.removed \subseteq dead
           /\ DOMAIN episodes = DOMAIN before \ reaper.removed
           /\ \A e \in DOMAIN episodes : episodes[e] = before[e]
           /\ reaper.shouldContinue = (Cardinality(reaper.removed) = 100)
           /\ reaper.passes <= (reaper.deadAtStart \div 100) + 1

\* A full pass answered true and the next, of 37, answered false.
C7_Witness ==
    /\ reaper.passes = 2
    /\ reaper.deadAtStart = 137
    /\ Cardinality(reaper.removed) = 37
    /\ ~reaper.shouldContinue
    /\ Cardinality(DOMAIN episodes) = 3

\* The ids a parameter names: one more than its commas, none when empty.
CountIds(param) ==
    IF param = <<>> THEN 0 ELSE 1 + Cardinality({i \in DOMAIN param : param[i] = ","})

\* C8: getEpisodesByPodcastIds serves one id by the direct path without
\* limiting, whatever the sort; another number of ids with sort most-recent
\* by the recency-index path; and anything else by the direct path, limiting
\* exactly when more than 10 ids are asked for.
C8_Strategy ==
    listing.entry = "podcasts" =>
        LET n == CountIds(listing.query.ids)
        IN IF n = 1 THEN listing.path = "direct" /\ ~listing.shouldLimit
           ELSE IF listing.query.sort = "most-recent" THEN listing.path = "recent"
           ELSE listing.path = "direct" /\ (listing.shouldLimit <=> n > 10)

\* Eleven ids, a popularity sort: the direct path, limited.
C8_Witness ==
    /\ listing.entry = "podcasts"
    /\ CountIds(listing.query.ids) = 11
    /\ listing.query.sort = "top-past-day"
    /\ listing.path = "direct" /\ listing.shouldLimit
    /\ listing.count = 1

\* C10 as stated: every episode a listing returns is public.
C10_AsStated ==
    listing.entry # "none" => \A e \in listing.episodes : e.isPublic

====
